---- MODULE Spec2Model ----
(***************************************************************************)
(* Model of pranav-techsophy/redaction-process.                            *)
(*                                                                         *)
(*   func_to_import.py    remove_undesired_patterns, redact_pdf_content,   *)
(*                        extract_text_from_pdf, remove_pdf_metadata       *)
(*   process_to_upload.py process_zip_file_workflow                        *)
(*                                                                         *)
(* Three specifications share the module:                                  *)
(*   SpecClean   the line loop of remove_undesired_patterns                *)
(*   SpecRedact  pattern preparation and the page loop of                  *)
(*               redact_pdf_content                                        *)
(*   Spec        the driver process_zip_file_workflow                      *)
(* Each one leaves the variables of the other two at their idle values.    *)
(***************************************************************************)
EXTENDS Integers, Sequences, FiniteSets, TLC

VARIABLES
    \* ---- remove_undesired_patterns
    text,           \* the argument: a string, as a sequence of atoms
    lines,          \* text.split('\n')
    output_lines,   \* the list being built
    i,              \* loop index, 0-based as in the code
    src_idx,        \* history: for each element of output_lines, the index in lines it came from
    cpc,            \* "idle" | "start" | "loop" | "done"
    cleaned,        \* the returned string
    \* ---- redact_pdf_content
    in_exists,              \* os.path.exists(input_pdf_path)
    case_sensitive,         \* the argument
    patterns,               \* the argument words_and_patterns_to_redact
    item_i,                 \* position of the preparation loop in patterns
    search_patterns,        \* the list of search strings being built
    sp_item,                \* history: for each search string, the index of its entry in patterns
    doc_open,               \* the fitz document handle is open
    page_count,             \* doc.page_count
    page_num,               \* the page loop's index
    page_height,            \* page.rect.height of the loaded page
    header_rect, footer_rect,
    search_i,               \* position of the search loop in search_patterns
    text_instances_found,   \* the rectangles collected on the loaded page
    annots,                 \* the redaction annotations added to the loaded page, in order
    total_redactions,
    found_total,            \* history: rectangles returned by search_for on all pages so far
    applied_pages,          \* pages on which apply_redactions() has run
    out_file,               \* what is at output_pdf_path
    rret,                   \* the return value: "none" | "True" | "False"
    rpc,
    \* ---- process_zip_file_workflow
    zip_exists,             \* os.path.exists(zip_file_path)
    zip_valid,              \* zipfile.ZipFile accepts the file
    namelist,               \* zip_ref.namelist()
    member_i,               \* position of the extraction loop in namelist
    extracted_pdfs,         \* the files of <output>/extracted_pdfs: path and the member whose bytes it holds
    pdf_files_in_zip,       \* the list of extracted paths
    file_i,                 \* position of the per-file loop in pdf_files_in_zip
    processed,              \* history: per iteration, the member whose bytes were at pdf_path
    steps,                  \* history: the steps run: iteration, step, and whether it passed
    redacted_pdfs,          \* the files of <output>/redacted_pdfs
    text_output,            \* the files of <output>/text_output: path and the iteration that wrote it
    zip_open,               \* the ZipFile handle is open
    open_docs,              \* the fitz documents opened and not closed
    result,                 \* the return value: "none" | "True" | "False"
    pc

cleanVars == <<text, lines, output_lines, i, src_idx, cpc, cleaned>>

redactVars == <<in_exists, case_sensitive, patterns, item_i, search_patterns, sp_item,
                doc_open, page_count, page_num, page_height, header_rect, footer_rect,
                search_i, text_instances_found, annots, total_redactions, found_total,
                applied_pages, out_file, rret, rpc>>

flowVars == <<zip_exists, zip_valid, namelist, member_i, extracted_pdfs, pdf_files_in_zip,
              file_i, processed, steps, redacted_pdfs, text_output, zip_open, open_docs,
              result, pc>>

vars == <<cleanVars, redactVars, flowVars>>

notClean == <<redactVars, flowVars>>
notRedact == <<cleanVars, flowVars>>
notFlow == <<cleanVars, redactVars>>

(***************************************************************************)
(* Text.  A string is a sequence of atoms.  An atom is a maximal chunk the *)
(* regular expressions of the code cannot split: a run of word characters  *)
(* that the code's patterns treat as a unit, a single space, the sign "©", *)
(* or the newline.  Adjacent word atoms form one longer word               *)
(* ("UpToDate" followed by "X" is the word UpToDateX).                     *)
(***************************************************************************)
NL == "\n"

WordAtoms == {"A", "X", "2020", "UpToDate", "UPTODATE", "uptodate", "Copyright", "copyright"}

IsWordChar(a) == a \in WordAtoms

\* str.lower() / re.IGNORECASE folding of an atom
Lower(a) ==
    CASE a \in {"UpToDate", "UPTODATE", "uptodate"} -> "uptodate"
      [] a \in {"Copyright", "copyright"} -> "copyright"
      [] a = "A" -> "a"
      [] a = "X" -> "x"
      [] OTHER -> a

\* \d{4}: the atom starts with four digits
IsDigits4(a) == a = "2020"

\* \s*: a possibly empty run of white space between positions from and to (exclusive)
AllSpace(l, from, to) == \A k \in from..(to - 1) : l[k] = " "

\* re.search(r"Copyright ©\s*\d{4}", line, re.IGNORECASE)
IsMarker(l) ==
    \E p \in 1..Len(l) :
        /\ Lower(l[p]) = "copyright"
        /\ p + 2 <= Len(l)
        /\ l[p + 1] = " "
        /\ l[p + 2] = "©"
        /\ \E q \in (p + 3)..Len(l) : AllSpace(l, p + 3, q) /\ IsDigits4(l[q])

\* the character class sequence [Uu][Pp][Tt][Oo][Dd][Aa][Tt][Ee]
TokenNoCase(a) == Lower(a) = "uptodate"

\* mutant: only the spelling UpToDate is recognised
TokenExactCase(a) == a = "UpToDate"

IsToken(a) == TokenNoCase(a)

\* \b on both sides of position p of line l
WordBounded(l, p) ==
    /\ (p = 1 \/ ~IsWordChar(l[p - 1]))
    /\ (p = Len(l) \/ ~IsWordChar(l[p + 1]))

\* a match of r'\b[Uu][Pp][Tt][Oo][Dd][Aa][Tt][Ee]\b' at position p
TokenMatch(l, p) == IsToken(l[p]) /\ WordBounded(l, p)

\* re.sub(pattern, '', line): a left-to-right scan of the original line that
\* drops every match and copies everything else
RECURSIVE ReSubFrom(_, _)
ReSubFrom(l, p) ==
    IF p > Len(l) THEN <<>>
    ELSE IF TokenMatch(l, p) THEN ReSubFrom(l, p + 1)
    ELSE <<l[p]>> \o ReSubFrom(l, p + 1)

ReSub(l) == ReSubFrom(l, 1)

\* "\n".join(ls)
RECURSIVE Join(_)
Join(ls) ==
    IF ls = <<>> THEN <<>>
    ELSE IF Len(ls) = 1 THEN ls[1]
    ELSE ls[1] \o <<NL>> \o Join(Tail(ls))

\* s.split('\n'): always at least one element
RECURSIVE Split(_)
Split(s) ==
    IF \A k \in 1..Len(s) : s[k] # NL THEN <<s>>
    ELSE LET k == CHOOSE k \in 1..Len(s) : s[k] = NL /\ \A j \in 1..(k - 1) : s[j] # NL
         IN  <<SubSeq(s, 1, k - 1)>> \o Split(SubSeq(s, k + 1, Len(s)))

(***************************************************************************)
(* Inputs of remove_undesired_patterns.                                    *)
(***************************************************************************)
MaxLines == 5

LinePlain     == <<"A">>
LineMarker    == <<"Copyright", " ", "©", " ", "2020">>
LineMarkerLow == <<"X", "copyright", " ", "©", "2020", " ", "uptodate">>
LineToken     == <<"UpToDate", " ", "A">>
LineLonger    == <<"UPTODATE", "X", " ", "uptodate">>
LineNoMarker  == <<"Copyright", "©", " ", "2020">>

InputLines == {LinePlain, LineMarker, LineMarkerLow, LineToken, LineLonger, LineNoMarker}

InputTexts == {Join(ls) : ls \in UNION {[1..n -> InputLines] : n \in 1..MaxLines}}

(***************************************************************************)
(* remove_undesired_patterns                                               *)
(***************************************************************************)
CleanIdle ==
    /\ text = <<>>
    /\ lines = <<>>
    /\ output_lines = <<>>
    /\ i = 0
    /\ src_idx = <<>>
    /\ cpc = "idle"
    /\ cleaned = <<>>

InitClean ==
    /\ text \in InputTexts
    /\ lines = <<>>
    /\ output_lines = <<>>
    /\ i = 0
    /\ src_idx = <<>>
    /\ cpc = "start"
    /\ cleaned = <<>>

\* lines 51-53
CleanSplit ==
    /\ cpc = "start"
    /\ lines' = Split(text)
    /\ output_lines' = <<>>
    /\ i' = 0
    /\ src_idx' = <<>>
    /\ cpc' = "loop"
    /\ UNCHANGED <<text, cleaned>>
    /\ UNCHANGED notClean

\* the test of line 61; lines[i-1] of the code is lines[i] here (1-based)
PrevIsLastEmitted ==
    /\ output_lines # <<>>
    /\ i > 0
    /\ i - 1 < Len(lines)
    /\ lines[i] = output_lines[Len(output_lines)]

\* one iteration of the while loop whose line matches the marker (lines 58-64, 69)
CleanMarkerLine ==
    /\ cpc = "loop"
    /\ i < Len(lines)
    /\ IsMarker(lines[i + 1])
    /\ IF PrevIsLastEmitted
       THEN /\ output_lines' = SubSeq(output_lines, 1, Len(output_lines) - 1)
            /\ src_idx' = SubSeq(src_idx, 1, Len(src_idx) - 1)
       ELSE UNCHANGED <<output_lines, src_idx>>
    /\ i' = i + 3
    /\ UNCHANGED <<text, lines, cpc, cleaned>>
    /\ UNCHANGED notClean

\* one iteration of the while loop on any other line (lines 65-69)
CleanOtherLine ==
    /\ cpc = "loop"
    /\ i < Len(lines)
    /\ ~IsMarker(lines[i + 1])
    /\ output_lines' = Append(output_lines, ReSub(lines[i + 1]))
    /\ src_idx' = Append(src_idx, i + 1)
    /\ i' = i + 1
    /\ UNCHANGED <<text, lines, cpc, cleaned>>
    /\ UNCHANGED notClean

\* line 70
CleanReturn ==
    /\ cpc = "loop"
    /\ i >= Len(lines)
    /\ cleaned' = Join(output_lines)
    /\ cpc' = "done"
    /\ UNCHANGED <<text, lines, output_lines, i, src_idx>>
    /\ UNCHANGED notClean

NextClean == CleanSplit \/ CleanMarkerLine \/ CleanOtherLine \/ CleanReturn

(***************************************************************************)
(* redact_pdf_content: pattern preparation (lines 116-147)                 *)
(*                                                                         *)
(* A re flag word is the set of its flags: "I" IGNORECASE, "S" DOTALL,     *)
(* "M" MULTILINE, "U" UNICODE; & and | are intersection and union.  An     *)
(* entry is a str, a compiled re.Pattern (whose flags always hold "U" for  *)
(* a str pattern) or a value of another type.                              *)
(***************************************************************************)
MaxPatterns == 1

EntryLiteral  == [kind |-> "str", pattern |-> <<"show", " ", "table">>, flags |-> {}]
EntryRegex    == [kind |-> "regex", pattern |-> <<"Topic", " ", "\\d+">>, flags |-> {"U"}]
EntryRegexI   == [kind |-> "regex", pattern |-> <<"AUTHORS:", ".*?">>, flags |-> {"I", "U"}]
EntryRegexISM == [kind |-> "regex", pattern |-> <<"ACKNOWLEDGMENT", ".*?">>, flags |-> {"I", "S", "M", "U"}]
EntryOther    == [kind |-> "other", pattern |-> <<>>, flags |-> {}]

Entries == {EntryLiteral, EntryRegex, EntryRegexI, EntryRegexISM, EntryOther}

PatternLists == UNION {[1..n -> Entries] : n \in 0..MaxPatterns}

\* the characters re.escape puts a backslash before
SpecialChars == {" ", ".", "(", ")", "?", "*", "+", "\\"}

\* re.escape(item)
RECURSIVE Escape(_)
Escape(s) ==
    IF s = <<>> THEN <<>>
    ELSE (IF Head(s) \in SpecialChars THEN <<"\\", Head(s)>> ELSE <<Head(s)>>) \o Escape(Tail(s))

\* pattern_string (lines 121-126)
PatternString(item) == IF item.kind = "str" THEN Escape(item.pattern) ELSE item.pattern

\* current_flags (lines 119, 127-131)
CurrentFlags(item, cs) ==
    LET base == IF cs THEN {} ELSE {"I"}
        widened == IF ~cs /\ ~("I" \in item.flags) THEN base \cup {"I"} ELSE base
    IN  IF item.kind = "str" THEN base
        ELSE widened \cup (item.flags \cap {"S", "M", "U"})

\* flag_str (lines 138-142)
FlagStr(flags) ==
    (IF "I" \in flags THEN <<"i">> ELSE <<>>) \o
    (IF "S" \in flags THEN <<"s">> ELSE <<>>) \o
    (IF "M" \in flags THEN <<"m">> ELSE <<>>) \o
    (IF "U" \in flags THEN <<"u">> ELSE <<>>)

\* the string appended to search_patterns (lines 144-147)
SearchString(item, cs) ==
    LET fs == FlagStr(CurrentFlags(item, cs))
    IN  IF fs # <<>> THEN <<"(?">> \o fs \o <<")">> \o PatternString(item)
        ELSE PatternString(item)

(***************************************************************************)
(* redact_pdf_content: rectangles (fitz.Rect)                              *)
(***************************************************************************)
Rect(x0, y0, x1, y1) == [x0 |-> x0, y0 |-> y0, x1 |-> x1, y1 |-> y1]

Max(a, b) == IF a >= b THEN a ELSE b
Min(a, b) == IF a <= b THEN a ELSE b

\* Rect.is_empty
IsEmpty(r) == r.x0 >= r.x1 \/ r.y0 >= r.y1

\* Rect.intersects: false when either is empty, else whether the common part is not empty
Intersects(a, b) ==
    /\ ~IsEmpty(a)
    /\ ~IsEmpty(b)
    /\ ~IsEmpty(Rect(Max(a.x0, b.x0), Max(a.y0, b.y0), Min(a.x1, b.x1), Min(a.y1, b.y1)))

header_height == 70
footer_height == 70

PageWidth == 100
PageHeights == {150, 300}

HeaderRect == Rect(0, 0, PageWidth, header_height)
FooterRect(h) == Rect(0, h - footer_height, PageWidth, h)

RectInHeader   == Rect(20, 10, 30, 20)
RectStraddle   == Rect(0, 60, 10, 75)
RectTouching   == Rect(40, 70, 50, 80)
RectBody       == Rect(20, 100, 30, 110)
RectBodyLeft   == Rect(0, 100, 10, 110)

Rects == {RectInHeader, RectStraddle, RectTouching, RectBody, RectBodyLeft}

\* what page.search_for does for one search string: it raises, or returns rectangles
SearchOutcomes ==
    {[raised |-> TRUE, rects |-> <<>>]} \cup
    {[raised |-> FALSE, rects |-> rs] :
        rs \in {<<>>} \cup {<<r>> : r \in Rects} \cup {<<RectBody, RectInHeader, RectTouching>>}}

\* the sort key of line 181
KeyLE(a, b) == a.y0 < b.y0 \/ (a.y0 = b.y0 /\ a.x0 <= b.x0)

\* stable insertion of r into the sorted sequence s
RECURSIVE InsertSorted(_, _)
InsertSorted(s, r) ==
    IF s = <<>> THEN <<r>>
    ELSE LET last == s[Len(s)]
         IN  IF KeyLE(last, r) THEN Append(s, r)
             ELSE Append(InsertSorted(SubSeq(s, 1, Len(s) - 1), r), last)

\* sorted(text_instances_found, key=lambda r: (r.y0, r.x0)) (line 181)
RECURSIVE Sorted(_)
Sorted(s) == IF s = <<>> THEN <<>> ELSE InsertSorted(Sorted(SubSeq(s, 1, Len(s) - 1)), s[Len(s)])

\* the test of line 185
KeepsRect(hdr, ftr, r) == ~Intersects(hdr, r) /\ ~Intersects(ftr, r)

\* mutant: only the header is tested
KeepsRectHeaderOnly(hdr, ftr, r) == ~Intersects(hdr, r)

Survives(hdr, ftr, r) == KeepsRect(hdr, ftr, r)

\* the rectangles annotated by the loop of lines 183-187, in order
RECURSIVE Surviving(_, _, _)
Surviving(hdr, ftr, s) ==
    IF s = <<>> THEN <<>>
    ELSE (IF Survives(hdr, ftr, Head(s)) THEN <<Head(s)>> ELSE <<>>) \o Surviving(hdr, ftr, Tail(s))

(***************************************************************************)
(* redact_pdf_content                                                      *)
(***************************************************************************)
MaxPages == 2

NoRect == Rect(0, 0, 0, 0)
NoFile == [kind |-> "none", redacted_pages |-> 0]

RedactIdle ==
    /\ in_exists = FALSE
    /\ case_sensitive = FALSE
    /\ patterns = <<>>
    /\ item_i = 0
    /\ search_patterns = <<>>
    /\ sp_item = <<>>
    /\ doc_open = FALSE
    /\ page_count = 0
    /\ page_num = 0
    /\ page_height = 0
    /\ header_rect = NoRect
    /\ footer_rect = NoRect
    /\ search_i = 0
    /\ text_instances_found = <<>>
    /\ annots = <<>>
    /\ total_redactions = 0
    /\ found_total = 0
    /\ applied_pages = 0
    /\ out_file = NoFile
    /\ rret = "none"
    /\ rpc = "idle"

InitRedact ==
    /\ in_exists \in BOOLEAN
    /\ case_sensitive \in BOOLEAN
    /\ patterns \in PatternLists
    /\ page_count \in 0..MaxPages
    /\ item_i = 0
    /\ search_patterns = <<>>
    /\ sp_item = <<>>
    /\ doc_open = FALSE
    /\ page_num = 0
    /\ page_height = 0
    /\ header_rect = NoRect
    /\ footer_rect = NoRect
    /\ search_i = 0
    /\ text_instances_found = <<>>
    /\ annots = <<>>
    /\ total_redactions = 0
    /\ found_total = 0
    /\ applied_pages = 0
    /\ out_file = NoFile
    /\ rret = "none"
    /\ rpc = "start"

redactInputs == <<in_exists, case_sensitive, patterns, page_count>>
redactPrep == <<item_i, search_patterns, sp_item>>
redactPage == <<page_num, page_height, header_rect, footer_rect, search_i,
                text_instances_found, annots, total_redactions, found_total, applied_pages>>

\* lines 107-109
RedactMissing ==
    /\ rpc = "start"
    /\ ~in_exists
    /\ rret' = "False"
    /\ rpc' = "done"
    /\ UNCHANGED <<redactInputs, redactPrep, redactPage, doc_open, out_file>>
    /\ UNCHANGED notRedact

\* line 112 raising: nothing was opened; lines 202-205
RedactOpenRaises ==
    /\ rpc = "start"
    /\ in_exists
    /\ rret' = "False"
    /\ rpc' = "done"
    /\ UNCHANGED <<redactInputs, redactPrep, redactPage, doc_open, out_file>>
    /\ UNCHANGED notRedact

\* lines 112-116
RedactOpen ==
    /\ rpc = "start"
    /\ in_exists
    /\ doc_open' = TRUE
    /\ total_redactions' = 0
    /\ search_patterns' = <<>>
    /\ sp_item' = <<>>
    /\ item_i' = 0
    /\ rpc' = IF patterns = <<>> THEN "pages" ELSE "prepare"
    /\ UNCHANGED <<redactInputs, page_num, page_height, header_rect, footer_rect, search_i,
                   text_instances_found, annots, found_total, applied_pages, out_file, rret>>
    /\ UNCHANGED notRedact

\* one iteration of the loop of line 117 on a str or a re.Pattern (lines 118-131, 136-147)
PrepareItem ==
    /\ rpc = "prepare"
    /\ item_i < Len(patterns)
    /\ patterns[item_i + 1].kind \in {"str", "regex"}
    /\ search_patterns' = Append(search_patterns, SearchString(patterns[item_i + 1], case_sensitive))
    /\ sp_item' = Append(sp_item, item_i + 1)
    /\ item_i' = item_i + 1
    /\ rpc' = IF item_i + 1 < Len(patterns) THEN "prepare" ELSE "pages"
    /\ UNCHANGED <<redactInputs, redactPage, doc_open, out_file, rret>>
    /\ UNCHANGED notRedact

\* one iteration of the loop of line 117 on any other value (lines 132-134)
PrepareSkipInvalid ==
    /\ rpc = "prepare"
    /\ item_i < Len(patterns)
    /\ patterns[item_i + 1].kind = "other"
    /\ item_i' = item_i + 1
    /\ rpc' = IF item_i + 1 < Len(patterns) THEN "prepare" ELSE "pages"
    /\ UNCHANGED <<redactInputs, search_patterns, sp_item, redactPage, doc_open, out_file, rret>>
    /\ UNCHANGED notRedact

\* lines 150-166: load the next page and add the two fixed annotations
LoadPage ==
    /\ rpc = "pages"
    /\ page_num < page_count
    /\ \E h \in PageHeights :
        /\ page_height' = h
        /\ header_rect' = HeaderRect
        /\ footer_rect' = FooterRect(h)
        /\ annots' = <<HeaderRect, FooterRect(h)>>
    /\ total_redactions' = total_redactions + 2
    /\ text_instances_found' = <<>>
    /\ search_i' = 0
    /\ rpc' = IF search_patterns = <<>> THEN "consolidate" ELSE "search"
    /\ UNCHANGED <<redactInputs, redactPrep, page_num, found_total, applied_pages,
                   doc_open, out_file, rret>>
    /\ UNCHANGED notRedact

\* one iteration of the loop of line 167 (lines 168-178)
SearchPattern ==
    /\ rpc = "search"
    /\ search_i < Len(search_patterns)
    /\ \E o \in SearchOutcomes :
        IF o.raised
        THEN UNCHANGED <<text_instances_found, found_total>>
        ELSE /\ text_instances_found' = text_instances_found \o o.rects
             /\ found_total' = found_total + Len(o.rects)
    /\ search_i' = search_i + 1
    /\ rpc' = IF search_i + 1 < Len(search_patterns) THEN "search" ELSE "consolidate"
    /\ UNCHANGED <<redactInputs, redactPrep, page_num, page_height, header_rect, footer_rect,
                   annots, total_redactions, applied_pages, doc_open, out_file, rret>>
    /\ UNCHANGED notRedact

\* lines 181-190: sort, annotate the surviving rectangles, apply
ApplyPage ==
    /\ rpc = "consolidate"
    /\ LET redaction_rects == Sorted(text_instances_found)
           kept == Surviving(header_rect, footer_rect, redaction_rects)
       IN  /\ annots' = annots \o kept
           /\ total_redactions' = total_redactions + Len(kept)
    /\ applied_pages' = applied_pages + 1
    /\ page_num' = page_num + 1
    /\ rpc' = "pages"
    /\ UNCHANGED <<redactInputs, redactPrep, page_height, header_rect, footer_rect, search_i,
                   text_instances_found, found_total, doc_open, out_file, rret>>
    /\ UNCHANGED notRedact

\* the test of line 192
AnyRedaction == total_redactions > 0

\* mutant of the test of line 192: the fixed regions are not counted
AnyMatchRedaction == total_redactions > 2 * page_count

SavesDocument == AnyRedaction

\* lines 192-196
RedactSave ==
    /\ rpc = "pages"
    /\ page_num >= page_count
    /\ SavesDocument
    /\ out_file' = [kind |-> "saved", redacted_pages |-> applied_pages]
    /\ doc_open' = FALSE
    /\ rret' = "True"
    /\ rpc' = "done"
    /\ UNCHANGED <<redactInputs, redactPrep, redactPage>>
    /\ UNCHANGED notRedact

\* lines 197-201
RedactCopy ==
    /\ rpc = "pages"
    /\ page_num >= page_count
    /\ ~SavesDocument
    /\ out_file' = [kind |-> "copy", redacted_pages |-> 0]
    /\ doc_open' = FALSE
    /\ rret' = "True"
    /\ rpc' = "done"
    /\ UNCHANGED <<redactInputs, redactPrep, redactPage>>
    /\ UNCHANGED notRedact

\* shutil.copy raising after doc.close() (lines 198-199, 202-205)
RedactCopyRaises ==
    /\ rpc = "pages"
    /\ page_num >= page_count
    /\ ~SavesDocument
    /\ doc_open' = FALSE
    /\ rret' = "False"
    /\ rpc' = "done"
    /\ UNCHANGED <<redactInputs, redactPrep, redactPage, out_file>>
    /\ UNCHANGED notRedact

\* a fitz call of the page loop or doc.save raising: the handler of lines 202-205
\* returns False and never closes doc
RedactRaises ==
    /\ rpc \in {"pages", "consolidate"}
    /\ rpc = "pages" /\ page_num >= page_count => SavesDocument
    /\ rret' = "False"
    /\ rpc' = "done"
    /\ UNCHANGED <<redactInputs, redactPrep, redactPage, doc_open, out_file>>
    /\ UNCHANGED notRedact

NextRedact ==
    \/ RedactMissing
    \/ RedactOpenRaises
    \/ RedactOpen
    \/ PrepareItem
    \/ PrepareSkipInvalid
    \/ LoadPage
    \/ SearchPattern
    \/ ApplyPage
    \/ RedactSave
    \/ RedactCopy
    \/ RedactCopyRaises
    \/ RedactRaises

(***************************************************************************)
(* process_zip_file_workflow                                               *)
(*                                                                         *)
(* An archive member name is a directory, a base name and an extension.    *)
(* Paths below the output directories are compared as the file system      *)
(* compares them: character by character (a case-sensitive file system).   *)
(***************************************************************************)
MaxMembers == 2

Member(d, b, e) == [dir |-> d, base |-> b, ext |-> e]

MemberNames ==
    {Member("a", "x", ".pdf"), Member("b", "x", ".pdf"), Member("a", "x", ".PDF"),
     Member("a", "y", ".pdf"), Member("a", "n", ".txt")}

NameLists == UNION {[1..n -> MemberNames] : n \in 0..MaxMembers}

\* str.lower() of an extension
LowerExt(e) == IF e = ".PDF" THEN ".pdf" ELSE e

\* member.lower().endswith(".pdf") (line 47)
IsPdfMember(m) == LowerExt(m.ext) = ".pdf"

\* mutant: the test without lower()
IsPdfMemberExact(m) == m.ext = ".pdf"

EndsWithPdf(m) == IsPdfMember(m)

\* os.path.join(extracted_pdf_dir, os.path.basename(member)) (line 49)
ExtractedPath(m) == [base |-> m.base, ext |-> m.ext]

\* os.path.join(redacted_pdf_dir, f"redacted_{base_name}") (line 73)
RedactedPath(p) == [prefix |-> "redacted_", base |-> p.base, ext |-> p.ext]

\* os.path.join(text_output_dir, f"{os.path.splitext(base_name)[0]}.txt") (line 93)
TextPath(p) == [base |-> p.base, ext |-> ".txt"]

\* open(path, 'wb') / open(path, 'w') followed by a write: the file is created or replaced
WriteFile(fs, path, content) ==
    {f \in fs : f.path # path} \cup {[path |-> path, content |-> content]}

Step(k, name, passed) == [file |-> k, step |-> name, ok |-> passed]

\* what the call of remove_pdf_metadata returns (lines 77-98)
MetadataOutcomes == {"True", "False"}

\* how the call of redact_pdf_content ends (lines 111-205):
\*   "saved"        True, the document was saved and closed
\*   "copied"       True, the document was closed and the input copied
\*   "open_raises"  False, fitz.open raised
\*   "raises"       False, a later call raised: doc.close() was not reached
RedactOutcomes == {"saved", "copied", "open_raises", "raises"}

\* how the call of extract_text_from_pdf ends (lines 212-239):
\*   "text"         a non-empty string, the document was closed
\*   "empty"        "", the document was closed (no page gave text)
\*   "open_raises"  "", fitz.open raised
\*   "raises"       "", a later call raised: doc.close() was not reached
OcrOutcomes == {"text", "empty", "open_raises", "raises"}

FlowIdle ==
    /\ zip_exists = FALSE
    /\ zip_valid = FALSE
    /\ namelist = <<>>
    /\ member_i = 0
    /\ extracted_pdfs = {}
    /\ pdf_files_in_zip = <<>>
    /\ file_i = 0
    /\ processed = <<>>
    /\ steps = {}
    /\ redacted_pdfs = {}
    /\ text_output = {}
    /\ zip_open = FALSE
    /\ open_docs = {}
    /\ result = "none"
    /\ pc = "idle"

InitFlow ==
    /\ zip_exists \in BOOLEAN
    /\ zip_valid \in BOOLEAN
    /\ namelist \in NameLists
    /\ member_i = 0
    /\ extracted_pdfs = {}
    /\ pdf_files_in_zip = <<>>
    /\ file_i = 0
    /\ processed = <<>>
    /\ steps = {}
    /\ redacted_pdfs = {}
    /\ text_output = {}
    /\ zip_open = FALSE
    /\ open_docs = {}
    /\ result = "none"
    /\ pc = "start"

flowInputs == <<zip_exists, zip_valid, namelist>>
flowExtract == <<member_i, extracted_pdfs, pdf_files_in_zip>>
flowFiles == <<file_i, processed, steps, redacted_pdfs, text_output, open_docs>>

\* lines 40-42
ZipMissing ==
    /\ pc = "start"
    /\ ~zip_exists
    /\ result' = "False"
    /\ pc' = "done"
    /\ UNCHANGED <<flowInputs, flowExtract, flowFiles, zip_open>>
    /\ UNCHANGED notFlow

\* line 44 raising zipfile.BadZipFile; lines 101-103
ZipInvalid ==
    /\ pc = "start"
    /\ zip_exists
    /\ ~zip_valid
    /\ result' = "False"
    /\ pc' = "done"
    /\ UNCHANGED <<flowInputs, flowExtract, flowFiles, zip_open>>
    /\ UNCHANGED notFlow

\* lines 44-45
ZipOpen ==
    /\ pc = "start"
    /\ zip_exists
    /\ zip_valid
    /\ zip_open' = TRUE
    /\ pdf_files_in_zip' = <<>>
    /\ member_i' = 0
    /\ pc' = "extract"
    /\ UNCHANGED <<flowInputs, extracted_pdfs, flowFiles, result>>
    /\ UNCHANGED notFlow

\* one iteration of the loop of line 46 on a member that passes the test of line 47
ExtractMember ==
    /\ pc = "extract"
    /\ member_i < Len(namelist)
    /\ EndsWithPdf(namelist[member_i + 1])
    /\ LET extracted_path == ExtractedPath(namelist[member_i + 1])
       IN  /\ extracted_pdfs' = WriteFile(extracted_pdfs, extracted_path, member_i + 1)
           /\ pdf_files_in_zip' = Append(pdf_files_in_zip, extracted_path)
    /\ member_i' = member_i + 1
    /\ UNCHANGED <<flowInputs, flowFiles, zip_open, result, pc>>
    /\ UNCHANGED notFlow

\* one iteration of the loop of line 46 on any other member
SkipMember ==
    /\ pc = "extract"
    /\ member_i < Len(namelist)
    /\ ~EndsWithPdf(namelist[member_i + 1])
    /\ member_i' = member_i + 1
    /\ UNCHANGED <<flowInputs, extracted_pdfs, pdf_files_in_zip, flowFiles, zip_open, result, pc>>
    /\ UNCHANGED notFlow

\* lines 50-53 raising (the member cannot be read, the target cannot be written):
\* the with statement closes the archive, lines 104-107 return False
ExtractRaises ==
    /\ pc = "extract"
    /\ member_i < Len(namelist)
    /\ EndsWithPdf(namelist[member_i + 1])
    /\ zip_open' = FALSE
    /\ result' = "False"
    /\ pc' = "done"
    /\ UNCHANGED <<flowInputs, flowExtract, flowFiles>>
    /\ UNCHANGED notFlow

\* mutant: an archive without PDFs counts as processed
EmptyResultTrue == "True"

\* the value returned at line 59
EmptyResult == "False"

\* lines 57-59
NoPdfFiles ==
    /\ pc = "extract"
    /\ member_i >= Len(namelist)
    /\ pdf_files_in_zip = <<>>
    /\ zip_open' = FALSE
    /\ result' = EmptyResult
    /\ pc' = "done"
    /\ UNCHANGED <<flowInputs, flowExtract, flowFiles>>
    /\ UNCHANGED notFlow

\* line 57 false, line 61 entered with the first path
EnterFileLoop ==
    /\ pc = "extract"
    /\ member_i >= Len(namelist)
    /\ pdf_files_in_zip # <<>>
    /\ file_i' = 0
    /\ pc' = "metadata"
    /\ UNCHANGED <<flowInputs, flowExtract, processed, steps, redacted_pdfs, text_output,
                   open_docs, zip_open, result>>
    /\ UNCHANGED notFlow

\* mutant: break instead of continue
AfterFileBreak == "loop_end"

\* continue / the end of the body of the loop of line 61
AfterFile == IF file_i + 1 < Len(pdf_files_in_zip) THEN "metadata" ELSE "loop_end"

ContentAt(fs, path) == (CHOOSE f \in fs : f.path = path).content

\* lines 62-70
RemoveMetadata ==
    /\ pc = "metadata"
    /\ LET pdf_path == pdf_files_in_zip[file_i + 1]
       IN  processed' = Append(processed, ContentAt(extracted_pdfs, pdf_path))
    /\ \E metadata_removed \in MetadataOutcomes :
        /\ steps' = steps \cup {Step(file_i, "metadata", metadata_removed = "True")}
        /\ IF metadata_removed = "True"
           THEN pc' = "redact" /\ UNCHANGED file_i
           ELSE pc' = AfterFile /\ file_i' = IF AfterFile = "metadata" THEN file_i + 1 ELSE file_i
    /\ UNCHANGED <<flowInputs, flowExtract, redacted_pdfs, text_output, open_docs, zip_open, result>>
    /\ UNCHANGED notFlow

\* lines 72-79
RedactContent ==
    /\ pc = "redact"
    /\ \E how \in RedactOutcomes :
        /\ steps' = steps \cup {Step(file_i, "redact", how \in {"saved", "copied"})}
        /\ redacted_pdfs' =
               IF how \in {"saved", "copied"}
               THEN WriteFile(redacted_pdfs, RedactedPath(pdf_files_in_zip[file_i + 1]), how)
               ELSE redacted_pdfs
        /\ open_docs' =
               IF how = "raises"
               THEN open_docs \cup {[file |-> file_i, step |-> "redact"]}
               ELSE open_docs
        /\ IF how \in {"saved", "copied"}
           THEN pc' = "ocr" /\ UNCHANGED file_i
           ELSE pc' = AfterFile /\ file_i' = IF AfterFile = "metadata" THEN file_i + 1 ELSE file_i
    /\ UNCHANGED <<flowInputs, flowExtract, processed, text_output, zip_open, result>>
    /\ UNCHANGED notFlow

\* lines 81-86
ExtractText ==
    /\ pc = "ocr"
    /\ \E how \in OcrOutcomes :
        /\ steps' = steps \cup {Step(file_i, "ocr", how = "text")}
        /\ open_docs' =
               IF how = "raises"
               THEN open_docs \cup {[file |-> file_i, step |-> "ocr"]}
               ELSE open_docs
        /\ IF how = "text"
           THEN pc' = "clean" /\ UNCHANGED file_i
           ELSE pc' = AfterFile /\ file_i' = IF AfterFile = "metadata" THEN file_i + 1 ELSE file_i
    /\ UNCHANGED <<flowInputs, flowExtract, processed, redacted_pdfs, text_output, zip_open, result>>
    /\ UNCHANGED notFlow

\* lines 88-96
CleanAndWrite ==
    /\ pc = "clean"
    /\ steps' = steps \cup {Step(file_i, "clean", TRUE), Step(file_i, "write", TRUE)}
    /\ text_output' = WriteFile(text_output, TextPath(pdf_files_in_zip[file_i + 1]), file_i)
    /\ pc' = AfterFile
    /\ file_i' = IF AfterFile = "metadata" THEN file_i + 1 ELSE file_i
    /\ UNCHANGED <<flowInputs, flowExtract, processed, redacted_pdfs, open_docs, zip_open, result>>
    /\ UNCHANGED notFlow

\* lines 88-94 with open() or write() raising: the with statement of line 44 closes
\* the archive, lines 104-107 return False
WriteRaises ==
    /\ pc = "clean"
    /\ steps' = steps \cup {Step(file_i, "clean", TRUE), Step(file_i, "write", FALSE)}
    /\ zip_open' = FALSE
    /\ result' = "False"
    /\ pc' = "done"
    /\ UNCHANGED <<flowInputs, flowExtract, file_i, processed, redacted_pdfs, text_output, open_docs>>
    /\ UNCHANGED notFlow

\* the loop of line 61 is exhausted: the with statement closes the archive, lines 98-99
ReturnTrue ==
    /\ pc = "loop_end"
    /\ zip_open' = FALSE
    /\ result' = "True"
    /\ pc' = "done"
    /\ UNCHANGED <<flowInputs, flowExtract, flowFiles>>
    /\ UNCHANGED notFlow

\* a document that lines 202-205 or 235-238 of func_to_import.py left open is closed
\* only when the runtime finalizes the object: at some later point, or never
FinalizeDoc ==
    /\ pc # "done"
    /\ \E d \in open_docs : open_docs' = open_docs \ {d}
    /\ UNCHANGED <<flowInputs, flowExtract, file_i, processed, steps, redacted_pdfs, text_output,
                   zip_open, result, pc>>
    /\ UNCHANGED notFlow

Next ==
    \/ ZipMissing
    \/ ZipInvalid
    \/ ZipOpen
    \/ ExtractMember
    \/ SkipMember
    \/ ExtractRaises
    \/ NoPdfFiles
    \/ EnterFileLoop
    \/ RemoveMetadata
    \/ RedactContent
    \/ ExtractText
    \/ CleanAndWrite
    \/ WriteRaises
    \/ ReturnTrue
    \/ FinalizeDoc

StartClean == InitClean /\ RedactIdle /\ FlowIdle

StartRedact == InitRedact /\ CleanIdle /\ FlowIdle

Init == InitFlow /\ CleanIdle /\ RedactIdle

SpecClean == StartClean /\ [][NextClean]_vars

SpecRedact == StartRedact /\ [][NextRedact]_vars

Spec == Init /\ [][Next]_vars

(***************************************************************************)
(* Properties                                                              *)
(***************************************************************************)

\* the positions of lines whose cleaned form is in output_lines
KeptIdx == {src_idx[n] : n \in DOMAIN src_idx}

\* the positions of lines that match the copyright-year marker
MarkerIdx == {k \in 1..Len(lines) : IsMarker(lines[k])}

\* a whole-word occurrence of the token, in any casing, somewhere in line l
HasWholeWordToken(l) == \E p \in 1..Len(l) : TokenNoCase(l[p]) /\ WordBounded(l, p)

\* the atoms of line l that are part of a longer word, in order
RECURSIVE LongerWordAtoms(_, _)
LongerWordAtoms(l, p) ==
    IF p > Len(l) THEN <<>>
    ELSE (IF IsWordChar(l[p]) /\ ~WordBounded(l, p) THEN <<l[p]>> ELSE <<>>)
         \o LongerWordAtoms(l, p + 1)

\* C5: when remove_undesired_patterns has returned, no line that matches the marker,
\* no line immediately before one and no line immediately after one is in the output;
\* the four lines A, marker, A, A yield the single line A.
C5_MarkerAndNeighboursRemoved ==
    cpc = "done" =>
        /\ \A k \in MarkerIdx : \A d \in {k - 1, k, k + 1} : d \notin KeptIdx
        /\ lines = <<LinePlain, LineMarker, LinePlain, LinePlain>> => cleaned = LinePlain

\* C6: when remove_undesired_patterns has returned, no line of the returned text holds
\* the token UpToDate (any casing) as a whole word, the returned lines are the kept
\* lines, and in every kept line the longer words (UPTODATEX) are exactly those of the
\* input line.
C6_TokenStripped ==
    cpc = "done" =>
        /\ \A n \in DOMAIN Split(cleaned) : ~HasWholeWordToken(Split(cleaned)[n])
        /\ output_lines # <<>> => Split(cleaned) = output_lines
        /\ \A n \in DOMAIN output_lines :
               LongerWordAtoms(output_lines[n], 1) = LongerWordAtoms(lines[src_idx[n]], 1)

\* a kept line held both a longer word around the token and the token as a whole word
C6_Witness ==
    /\ cpc = "done"
    /\ \E n \in DOMAIN src_idx :
           /\ lines[src_idx[n]] = LineLonger
           /\ output_lines[n] = <<"UPTODATE", "X", " ">>

\* C7 as claimed: a successful call on a document in which search_for returned no
\* rectangle on any page has copied the input to the output path.
C7_NoMatchCopies ==
    (rpc = "done" /\ rret = "True" /\ found_total = 0) => out_file.kind = "copy"

\* C7 as amended: a successful call on a document in which search_for returned no
\* rectangle on any page has copied the input only if the document has no page; with
\* one page or more, the two fixed regions of every page were redacted (two redactions
\* a page) and the redacted document was saved.
C7_NoMatchCopiesOnlyWithoutPages ==
    (rpc = "done" /\ rret = "True" /\ found_total = 0) =>
        IF page_count = 0
        THEN out_file = [kind |-> "copy", redacted_pages |-> 0]
        ELSE /\ out_file = [kind |-> "saved", redacted_pages |-> page_count]
             /\ total_redactions = 2 * page_count

\* a document with pages was searched with a pattern, nothing matched, and it was saved
C7_Witness ==
    /\ rpc = "done"
    /\ rret = "True"
    /\ found_total = 0
    /\ search_patterns # <<>>
    /\ page_count >= 1
    /\ out_file.kind = "saved"

\* the search string s starts with an inline flag group that holds flag f
HasInlineFlag(s, f) ==
    /\ Len(s) >= 3
    /\ s[1] = "(?"
    /\ \E k \in 2..Len(s) : s[k] = f /\ \A j \in 2..k : s[j] # ")"

\* C8: every search string built so far carries the inline flag i when the global flag
\* is case-insensitive or its entry was compiled with IGNORECASE.
C8_CaseFlagOnlyWidened ==
    \A k \in DOMAIN search_patterns :
        (~case_sensitive \/ "I" \in patterns[sp_item[k]].flags)
            => HasInlineFlag(search_patterns[k], "i")

\* two rectangles have a common part of positive area
Overlaps(a, b) == a.x0 < b.x1 /\ b.x0 < a.x1 /\ a.y0 < b.y1 /\ b.y0 < a.y1

\* how often r occurs in the sequence s
Count(s, r) == Cardinality({n \in DOMAIN s : s[n] = r})

\* C9: when a page has been applied, its annotations are the header region, the
\* footer region and then, in (top, left) order, exactly the found rectangles that
\* overlap neither region; only these are counted in total_redactions.
C9_FixedRegionsAndSurvivors ==
    (rpc = "pages" /\ page_num > 0) =>
        LET extra == SubSeq(annots, 3, Len(annots))
        IN  /\ Len(annots) >= 2
            /\ annots[1] = Rect(0, 0, PageWidth, header_height)
            /\ annots[2] = Rect(0, page_height - footer_height, PageWidth, page_height)
            /\ \A r \in Rects :
                   Count(extra, r) =
                       IF Overlaps(r, annots[1]) \/ Overlaps(r, annots[2])
                       THEN 0
                       ELSE Count(text_instances_found, r)
            /\ \A j \in 1..(Len(extra) - 1) :
                   \/ extra[j].y0 < extra[j + 1].y0
                   \/ extra[j].y0 = extra[j + 1].y0 /\ extra[j].x0 <= extra[j + 1].x0
            /\ page_num = 1 => total_redactions = Len(annots)
            /\ total_redactions >= 2 * page_num + Len(extra)
            /\ total_redactions <= 2 * page_num + found_total

\* a page was applied on which one found rectangle lay in the header and two others,
\* found in the opposite order, survived
C9_Witness ==
    /\ rpc = "pages"
    /\ page_num > 0
    /\ text_instances_found = <<RectBody, RectInHeader, RectTouching>>
    /\ annots = <<HeaderRect, FooterRect(300), RectTouching, RectBody>>

\* the positions of the archive members that are PDFs
PdfMembers == {k \in 1..Len(namelist) : IsPdfMember(namelist[k])}

Rank(step) ==
    CASE step = "metadata" -> 1
      [] step = "redact" -> 2
      [] step = "ocr" -> 3
      [] step = "clean" -> 4
      [] step = "write" -> 5

\* the failed library steps: metadata stripping, redaction, text extraction
Failed == {s \in steps : ~s.ok /\ s.step \in {"metadata", "redact", "ocr"}}

C2_FalseOnlyForArchive ==
    (pc = "done" /\ result = "False") =>
        ~zip_exists \/ ~zip_valid \/ PdfMembers = {}

\* the extraction loop was left before its last member
ExtractionAborted == zip_exists /\ zip_valid /\ member_i < Len(namelist)

\* the write of a text file raised
WriteAborted == \E s \in steps : s.step = "write" /\ ~s.ok

\* C2 as amended: a finished run returned False exactly when the archive path was
\* missing, the archive invalid or without PDF members, or an exception was raised while
\* a member was extracted or a text file written; failures of metadata stripping,
\* redaction and text extraction never make it return False.
C2_FalseForArchiveOrException ==
    pc = "done" =>
        /\ result \in {"True", "False"}
        /\ result = "False" <=>
               \/ ~zip_exists
               \/ ~zip_valid
               \/ PdfMembers = {}
               \/ ExtractionAborted
               \/ WriteAborted

\* a library step of one file failed, the write of another file's text raised, and
\* the run returned False
C2_Witness ==
    /\ pc = "done"
    /\ result = "False"
    /\ PdfMembers # {}
    /\ Failed # {}
    /\ WriteAborted

\* C3: for an archive without PDF members no per-file step is ever run, no text file
\* ever written, and the finished run returned False.
C3_NoPdfArchiveFails ==
    PdfMembers = {} =>
        /\ steps = {}
        /\ text_output = {}
        /\ pc = "done" => result = "False"

\* a valid, non-empty archive without PDF members was read to its end and the run
\* returned False
C3_Witness ==
    /\ pc = "done"
    /\ zip_exists
    /\ zip_valid
    /\ namelist # <<>>
    /\ member_i = Len(namelist)
    /\ PdfMembers = {}
    /\ result = "False"

\* every iteration of the per-file loop wrote its text file
AllWritten ==
    \A k \in 0..(Len(pdf_files_in_zip) - 1) :
        \E s \in steps : s.file = k /\ s.step = "write" /\ s.ok

\* C4: after a successful run in which every file passed every step, there are as many
\* text files as PDF members, and the iterations processed each PDF member exactly once.
C4_OneTextFilePerPdf ==
    (pc = "done" /\ result = "True" /\ AllWritten) =>
        /\ Cardinality({f.path : f \in text_output}) = Cardinality(PdfMembers)
        /\ Len(processed) = Cardinality(PdfMembers)
        /\ {processed[n] : n \in DOMAIN processed} = PdfMembers

\* C10: while a file is being processed the archive is closed, and whenever a step or
\* a file starts, or the run ends, no document opened earlier is still open.
C10_HandlesScopeBound ==
    /\ pc \in {"metadata", "redact", "ocr", "clean"} => ~zip_open
    /\ pc \in {"metadata", "redact", "ocr", "clean", "loop_end", "done"} => open_docs = {}

\* position k of lines is next to a line that matches the marker
NextToMarker(k) == (k - 1) \in MarkerIdx \/ (k + 1) \in MarkerIdx

\* C11: when remove_undesired_patterns has returned, every input line that is missing
\* from the output matches the marker or is next to a line that does; the lines that
\* are kept are in their original order, each with only the token stripped, and they
\* are the returned text.
C11_OnlyMarkerNeighbourhoodDropped ==
    cpc = "done" =>
        /\ \A k \in 1..Len(lines) :
               k \notin KeptIdx => k \in MarkerIdx \/ NextToMarker(k)
        /\ \A n \in 1..(Len(src_idx) - 1) : src_idx[n] < src_idx[n + 1]
        /\ \A n \in DOMAIN output_lines : output_lines[n] = ReSub(lines[src_idx[n]])
        /\ cleaned = Join(output_lines)

====
